---------------------------- MODULE Spec2Model ----------------------------
(***************************************************************************)
(* PR Comprehension Gate: the review workflow of src/app/main.py           *)
(* (handle_pr_event, handle_comment_event) with the functions it calls:    *)
(* parse_pr_diff, parse_numbered_answers, generate_questions and           *)
(* grade_answers.                                                          *)
(*                                                                         *)
(* Text is modelled as a sequence of tokens, an optional value as a        *)
(* sequence of length 0 or 1.  Spec is the workflow, with each handler a   *)
(* coroutine that other handlers interleave with; SpecCalls applies the    *)
(* functions of the LLM module to every kind of completion, one call at a  *)
(* time.                                                                   *)
(***************************************************************************)
EXTENDS Integers, Sequences, FiniteSets, Bags, TLC

None == <<>>
Some(x) == <<x>>
IsSome(o) == Len(o) = 1
Get(o) == o[1]

Min(a, b) == IF a <= b THEN a ELSE b
Prefix(s, n) == SubSeq(s, 1, Min(n, Len(s)))

(***************************************************************************)
(* Python string operations on token sequences.                            *)
(***************************************************************************)
White == {"SP", "NL"}
\* a markdown fence: three backquotes
Fence == "FENCE"

RECURSIVE LStrip(_)
LStrip(s) == IF s # <<>> /\ Head(s) \in White THEN LStrip(Tail(s)) ELSE s

RECURSIVE RStrip(_)
RStrip(s) ==
    IF s # <<>> /\ s[Len(s)] \in White THEN RStrip(SubSeq(s, 1, Len(s) - 1)) ELSE s

\* str.strip()
Strip(s) == RStrip(LStrip(s))

\* "\n".join(s.split("\n")[1:]): the text after the first newline, "" if none
RECURSIVE AfterFirstLine(_)
AfterFirstLine(s) ==
    IF s = <<>> THEN <<>>
    ELSE IF Head(s) = "NL" THEN Tail(s)
    ELSE AfterFirstLine(Tail(s))

(***************************************************************************)
(* JSON documents a completion may contain.  A document token names a      *)
(* well-formed JSON value; every other token is not JSON.                  *)
(*   t    the type of the top-level value                                  *)
(*   keys the keys of a top-level object                                   *)
(*   qt   the type of the value under "questions", qv its elements (the    *)
(*        items of a list, the characters of a string)                     *)
(*   op   the value under "overall_pass", ans the shape of the value under *)
(*        "answers"                                                        *)
(***************************************************************************)
NoDoc == [t |-> "none", keys |-> {}, qt |-> "null", qv |-> <<>>,
          op |-> "null", ans |-> "null"]

QObj(qt, qv) == [NoDoc EXCEPT !.t = "object", !.keys = {"questions"},
                              !.qt = qt, !.qv = qv]

GObj(keys, op, ans) == [NoDoc EXCEPT !.t = "object", !.keys = keys,
                                     !.op = op, !.ans = ans]

GKeys == {"overall_pass", "answers", "summary"}

Doc(tok) ==
    CASE tok = "Q0" -> QObj("list", <<>>)
      [] tok = "Q1" -> QObj("list", <<"qa">>)
      [] tok = "Q2" -> QObj("list", <<"qa", "qb">>)
      [] tok = "Q3" -> QObj("list", <<"qa", "qb", "qc">>)
      [] tok = "Q4" -> QObj("list", <<"qa", "qb", "qc", "qd">>)
      [] tok = "Q5" -> QObj("list", <<"qa", "qb", "qc", "qd", "qe">>)
      [] tok = "Q6" -> QObj("list", <<"qa", "qb", "qc", "qd", "qe", "qf">>)
      [] tok = "QStr" -> QObj("string", <<"W", "h", "y", "SP", "s", "o", "?">>)
      [] tok = "QEmptyStr" -> QObj("string", <<>>)
      [] tok = "QNum" -> QObj("number", <<>>)
      [] tok = "QNull" -> QObj("null", <<>>)
      [] tok = "QDict" -> QObj("object", <<>>)
      [] tok = "Empty" -> [NoDoc EXCEPT !.t = "object"]
      [] tok = "List" -> [NoDoc EXCEPT !.t = "list"]
      [] tok = "Str" -> [NoDoc EXCEPT !.t = "string"]
      [] tok = "Num" -> [NoDoc EXCEPT !.t = "number"]
      [] tok = "Null" -> [NoDoc EXCEPT !.t = "null"]
      [] tok = "GPass" -> GObj(GKeys, "true", "objects")
      [] tok = "GFail" -> GObj(GKeys, "false", "objects")
      [] tok = "GNoPass" -> GObj(GKeys \ {"overall_pass"}, "null", "objects")
      [] tok = "GNoAns" -> GObj(GKeys \ {"answers"}, "true", "null")
      [] tok = "GNoSum" -> GObj(GKeys \ {"summary"}, "true", "objects")
      [] tok = "GPassStr" -> GObj(GKeys, "string", "objects")
      [] tok = "GPassNull" -> GObj(GKeys, "null", "objects")
      [] tok = "GAnsStr" -> GObj(GKeys, "true", "strings")
      [] OTHER -> NoDoc

QDocs == {"Q0", "Q1", "Q2", "Q3", "Q4", "Q5", "Q6", "QStr", "QEmptyStr",
          "QNum", "QNull", "QDict"}
GDocs == {"GPass", "GFail", "GNoPass", "GNoAns", "GNoSum", "GPassStr",
          "GPassNull", "GAnsStr"}
OtherDocs == {"Empty", "List", "Str", "Num", "Null"}
Docs == QDocs \cup GDocs \cup OtherDocs

\* json.loads(text): None when it raises JSONDecodeError
json_loads(text) ==
    LET s == Strip(text)
    IN  IF Len(s) = 1 /\ s[1] \in Docs THEN Some(Doc(s[1])) ELSE None

\* A completion: the call raised, or returned content None, or returned text.
Completion(err, none, text) == [err |-> err, none |-> none, text |-> text]
Raised == Completion(TRUE, FALSE, <<>>)
NoContent == Completion(FALSE, TRUE, <<>>)
Text(text) == Completion(FALSE, FALSE, text)

(***************************************************************************)
(* generate_questions (src/app/llm/question_generator.py).  A Python str   *)
(* is the sequence of its characters: len, slicing, truthiness and         *)
(* enumerate act on it as on a list.                                       *)
(***************************************************************************)
MIN_QUESTIONS == 3
MAX_QUESTIONS == 5

_fallback_questions == <<"purpose", "edge_cases", "interaction">>

\* len(questions) raises TypeError on these
NoLen == {"number", "null", "bool"}

\* seeded fault: an empty value is returned as it is
validate_questions_no_fallback(qt, qv) ==
    IF qt \in NoLen \/ qt = "object" THEN _fallback_questions
    ELSE Prefix(qv, MAX_QUESTIONS)

\* lines 43-47, the value under "questions" being of type qt with elements qv
validate_questions(qt, qv) ==
    IF qt = "list" /\ MIN_QUESTIONS <= Len(qv) /\ Len(qv) <= MAX_QUESTIONS
    THEN qv
    ELSE IF qt \in NoLen THEN _fallback_questions
    ELSE IF qt = "object" THEN _fallback_questions
    ELSE IF Prefix(qv, MAX_QUESTIONS) # <<>> THEN Prefix(qv, MAX_QUESTIONS)
    ELSE _fallback_questions

generate_questions(resp) ==
    IF resp.err \/ resp.none THEN _fallback_questions
    ELSE LET parsed == json_loads(resp.text)
         IN  IF parsed = None THEN _fallback_questions
             ELSE IF Get(parsed).t # "object" THEN _fallback_questions
             ELSE IF "questions" \notin Get(parsed).keys THEN _fallback_questions
             ELSE validate_questions(Get(parsed).qt, Get(parsed).qv)

(***************************************************************************)
(* grade_answers (src/app/llm/answer_grader.py)                            *)
(***************************************************************************)
GradingResult(op, ans, summary) ==
    [overall_pass |-> op, answers |-> ans, summary |-> summary]

\* lines 66-70
GradingFailed ==
    GradingResult("false", "empty", "Grading failed due to a system error")

\* lines 50-55: strip markdown fencing if present
strip_fence(raw) ==
    LET cleaned == Strip(raw)
    IN  IF cleaned # <<>> /\ Head(cleaned) = Fence
        THEN LET body == AfterFirstLine(cleaned)
             IN  Strip(IF body # <<>> /\ body[Len(body)] = Fence
                       THEN SubSeq(body, 1, Len(body) - 1)
                       ELSE body)
        ELSE cleaned

\* seeded fault: missing keys read as null instead of raising KeyError
grade_answers_unchecked(resp) ==
    IF resp.err THEN GradingFailed
    ELSE LET cleaned == IF resp.none THEN <<>> ELSE strip_fence(resp.text)
             parsed == json_loads(cleaned)
         IN  IF parsed = None THEN GradingFailed
             ELSE IF Get(parsed).t # "object" THEN GradingFailed
             ELSE GradingResult(Get(parsed).op, Get(parsed).ans, "model summary")

grade_answers(resp) ==
    IF resp.err THEN GradingFailed
    ELSE LET cleaned == IF resp.none THEN <<>> ELSE strip_fence(resp.text)
             parsed == json_loads(cleaned)
         IN  IF parsed = None THEN GradingFailed
             ELSE IF Get(parsed).t # "object" THEN GradingFailed
             ELSE IF ~(GKeys \subseteq Get(parsed).keys) THEN GradingFailed
             ELSE GradingResult(Get(parsed).op, Get(parsed).ans, "model summary")

\* bool(overall_pass) as `if result.overall_pass` reads it (main.py:263,270,300)
Truthy(op) == op \in {"true", "string"}

\* main.py:281-287: item.get raises unless every item is an object
FeedbackRaises(ans) == ans \in {"strings", "null"}

(***************************************************************************)
(* parse_numbered_answers (src/app/main.py:178-187).  A comment body is a  *)
(* sequence of lines; a line is                                            *)
(*   k = "num"      optional blanks, digits n, a dot, then text t          *)
(*   k = "bare"     optional blanks, digits n, a dot, nothing but blanks   *)
(*                  after it (sp: at least one blank follows the dot)      *)
(*   k = "text"     a line that does not start with digits and a dot       *)
(*   k = "blank"    an empty line                                          *)
(* and raw is the text of the whole line, trimmed.                         *)
(***************************************************************************)
NumLine(n, t, raw) == [k |-> "num", n |-> n, t |-> t, raw |-> raw, sp |-> TRUE]
BareLine(n, sp, raw) == [k |-> "bare", n |-> n, t |-> "", raw |-> raw, sp |-> sp]
TextLine(raw) == [k |-> "text", n |-> 0, t |-> "", raw |-> raw, sp |-> FALSE]
BlankLine == [k |-> "blank", n |-> 0, t |-> "", raw |-> "", sp |-> FALSE]

Match(n, text) == [n |-> n, text |-> text]

\* the first line at or after i that is not blank, 0 if there is none
RECURSIVE NextNonBlank(_, _)
NextNonBlank(body, i) ==
    IF i > Len(body) THEN 0
    ELSE IF body[i].k # "blank" THEN i
    ELSE NextNonBlank(body, i + 1)

\* ANSWER_PATTERN.findall(body) from line i on.  \s* after the dot also
\* matches line breaks, so after a bare "n." the group (.+) captures the next
\* non-blank line whole; with no such line it captures one blank, if any.
RECURSIVE findall(_, _)
findall(body, i) ==
    IF i > Len(body) THEN <<>>
    ELSE LET line == body[i]
             j == NextNonBlank(body, i + 1)
         IN  CASE line.k = "num" ->
                    <<Match(line.n, line.t)>> \o findall(body, i + 1)
               [] line.k = "bare" /\ j # 0 ->
                    <<Match(line.n, body[j].raw)>> \o findall(body, j + 1)
               [] line.k = "bare" /\ j = 0 /\ line.sp ->
                    <<Match(line.n, "")>> \o findall(body, i + 1)
               [] OTHER -> findall(body, i + 1)

\* sorted(matches, key=int(number)): a stable sort
RECURSIVE InsertSorted(_, _)
InsertSorted(sorted, m) ==
    IF sorted = <<>> THEN <<m>>
    ELSE IF sorted[Len(sorted)].n <= m.n THEN Append(sorted, m)
    ELSE Append(InsertSorted(SubSeq(sorted, 1, Len(sorted) - 1), m),
                sorted[Len(sorted)])

RECURSIVE SortByNumber(_)
SortByNumber(ms) ==
    IF ms = <<>> THEN <<>>
    ELSE InsertSorted(SortByNumber(SubSeq(ms, 1, Len(ms) - 1)), ms[Len(ms)])

parse_numbered_answers(body) ==
    LET sorted_answers == SortByNumber(findall(body, 1))
    IN  [i \in 1..Len(sorted_answers) |-> sorted_answers[i].text]

(***************************************************************************)
(* parse_pr_diff (src/app/github/diff_parser.py).  A file name is its      *)
(* directory, and its base name split into stem and extension (the suffix  *)
(* that endswith tests); a patch is its identity and its number of lines   *)
(* (patch.count("\n") + 1), and is None when missing, null or empty.       *)
(***************************************************************************)
MAX_TOTAL_LINES == 5000
MAX_FILE_PATCH_LINES == 500

Name(dir, stem, ext) == [dir |-> dir, stem |-> stem, ext |-> ext]

SKIP_PATTERNS ==
    { <<"package-lock", ".json">>, <<"yarn", ".lock">>, <<"pnpm-lock", ".yaml">>,
      <<"Cargo", ".lock">>, <<"poetry", ".lock">>, <<"Pipfile", ".lock">>,
      <<"", ".gitignore">> }

SKIP_EXTENSIONS == {".min.js", ".min.css", ".map", ".svg", ".png", ".jpg", ".ico"}

\* seeded fault: the extensions are not tested
_should_skip_patterns_only(filename) ==
    <<filename.stem, filename.ext>> \in SKIP_PATTERNS

\* lines 70-74
_should_skip(filename) ==
    LET basename == <<filename.stem, filename.ext>>
    IN  basename \in SKIP_PATTERNS \/ filename.ext \in SKIP_EXTENSIONS

Patch(id, lines) == Some([id |-> id, lines |-> lines])

FileObj(filename, status, additions, deletions, patch) ==
    [filename |-> filename, status |-> status, additions |-> additions,
     deletions |-> deletions, patch |-> patch]

\* lines 52-62: one "### name (status: +a/-d)" entry with its patch, cut to
\* the first MAX_FILE_PATCH_LINES lines and marked when longer
Part(f) ==
    LET p == Get(f.patch)
    IN  [filename |-> f.filename, status |-> f.status,
         additions |-> f.additions, deletions |-> f.deletions,
         patch |-> p.id, lines |-> Min(p.lines, MAX_FILE_PATCH_LINES),
         truncated |-> p.lines > MAX_FILE_PATCH_LINES]

\* seeded fault: `continue` where the code has `break`
RECURSIVE diff_loop_continue(_, _, _, _)
diff_loop_continue(files, i, parts, total_lines) ==
    IF i > Len(files) THEN [parts |-> parts, is_large |-> FALSE]
    ELSE LET f == files[i]
         IN  IF _should_skip(f.filename) \/ f.patch = None
             THEN diff_loop_continue(files, i + 1, parts, total_lines)
             ELSE IF total_lines + Get(f.patch).lines > MAX_TOTAL_LINES
             THEN [diff_loop_continue(files, i + 1, parts, total_lines)
                       EXCEPT !.is_large = TRUE]
             ELSE diff_loop_continue(files, i + 1, Append(parts, Part(f)),
                                     total_lines + Get(f.patch).lines)

\* lines 33-62: the loop from file i on, with the parts and the total so far
RECURSIVE diff_loop(_, _, _, _)
diff_loop(files, i, parts, total_lines) ==
    IF i > Len(files) THEN [parts |-> parts, is_large |-> FALSE]
    ELSE LET f == files[i]
         IN  IF _should_skip(f.filename) \/ f.patch = None
             THEN diff_loop(files, i + 1, parts, total_lines)
             ELSE IF total_lines + Get(f.patch).lines > MAX_TOTAL_LINES
             THEN [parts |-> parts, is_large |-> TRUE]
             ELSE diff_loop(files, i + 1, Append(parts, Part(f)),
                            total_lines + Get(f.patch).lines)

\* "(no meaningful code changes)"
NoChanges == [sentinel |-> TRUE, parts |-> <<>>]

\* seeded fault: the digest is taken of the number of parts
sha256_of_size(text) == [sha256_of |-> Len(text.parts)]

\* hashlib.sha256(...).hexdigest(), taken to be free of collisions
sha256(text) == [sha256_of |-> text]

parse_pr_diff(files) ==
    LET r == diff_loop(files, 1, <<>>, 0)
        formatted_diff == IF r.parts # <<>>
                          THEN [sentinel |-> FALSE, parts |-> r.parts]
                          ELSE NoChanges
    IN  [diff_content |-> formatted_diff, diff_hash |-> sha256(formatted_diff),
         is_large |-> r.is_large]

(***************************************************************************)
(* The workflow (src/app/main.py).  GitHub and the model are the           *)
(* environment: fetch_pr_files answers with the files the PR has at the    *)
(* time of the call, which any push may have changed since the last call,  *)
(* and a completion is whatever the model returns.                         *)
(*                                                                         *)
(* A handler is a coroutine.  It is suspended at each outbound call and    *)
(* each database call; an action is the code from one suspension to the    *)
(* next access to what the handlers share (the table, the PR's comments,   *)
(* the commit statuses), so a call that touches none of it (the token,     *)
(* the fetch, a completion) belongs to the action of the access after it.  *)
(***************************************************************************)
\* webhook deliveries in one run
MaxEvents == 3

\* the background tasks that may run at a time
Workers == {"w1", "w2"}

TrackedPR == "acme/app#1"
SHAs == {"sha1", "sha2"}
Logins == {"alice"}

F(stem, ext, patch) == FileObj(Name("src", stem, ext), "modified", 1, 1, patch)

\* what fetch_pr_files may return
LockOnly == << F("yarn", ".lock", Patch("l1", 40)), F("logo", ".svg", None) >>
SmallA == << F("main", ".py", Patch("a1", 10)) >>
SmallB == << F("main", ".py", Patch("b1", 12)), F("yarn", ".lock", Patch("l1", 40)) >>
RemoteFiles == {LockOnly, SmallA, SmallB}

\* comment bodies a reviewer may send
Body2 == << NumLine(1, "a1", "1. a1"), NumLine(2, "a2", "2. a2") >>
Body3 == << NumLine(2, "a2", "2. a2"), NumLine(1, "a1", "1. a1"),
            NumLine(3, "a3", "3. a3") >>
Body6 == << NumLine(1, "a1", "1. a1"), NumLine(2, "a2", "2. a2"),
            NumLine(3, "a3", "3. a3"), NumLine(4, "a4", "4. a4"),
            NumLine(5, "a5", "5. a5"), NumLine(6, "a6", "6. a6") >>
Bodies == {Body2, Body3, Body6}

\* what the completion call may give the two operations
QuestionCompletions == {Text(<<"Q3">>), Text(<<"Q5">>)}
GradeCompletions == {Text(<<"GPass">>), Text(<<"GFail">>)}

VARIABLES
    pr_reviews,   \* the row of the pr_reviews table for the PR, None if none
    comments,     \* the comments posted on the PR, in order; the id is the index
    statuses,     \* head SHA -> the state of its commit status, "none" if unset
    running,      \* the bag of running handlers, each its position and locals
    exited,       \* how the handler that ended last ended (its last log line)
    delivered,    \* webhook events delivered so far
    call          \* SpecCalls: the function called, its argument and result

workflow == <<pr_reviews, comments, statuses, running, exited, delivered>>
vars == <<pr_reviews, comments, statuses, running, exited, delivered, call>>

\* a PRReview row (src/app/models/schemas.py)
PRReview(pr_id, pr_sha, questions, diff_hash, bot_comment_id) ==
    [pr_id |-> pr_id, pr_sha |-> pr_sha, questions |-> questions,
     diff_hash |-> diff_hash, reviewer_answers |-> None,
     grading_result |-> None, status |-> "pending_review",
     reviewer_username |-> None, bot_comment_id |-> bot_comment_id,
     reviewed_at |-> None]

Columns == {"pr_id", "pr_sha", "questions", "diff_hash", "reviewer_answers",
            "grading_result", "status", "reviewer_username", "bot_comment_id",
            "reviewed_at"}

\* The unit of work's UPDATE for an object loaded as `loaded` and now holding
\* `object`: it sets the columns whose value differs from the loaded one, and
\* leaves the others as the row has them.
flush_update(row, loaded, object) ==
    [c \in Columns |-> IF object[c] # loaded[c] THEN object[c] ELSE row[c]]

\* A coroutine's locals; a local is kept only while the code still reads it.
Locals ==
    [kind |-> "", pc |-> "", sha |-> "", login |-> "", body |-> <<>>,
     diff_hash |-> None, is_large |-> FALSE, existing |-> None,
     questions |-> <<>>, comment_id |-> 0, answers |-> <<>>,
     result |-> None]

Exit(kind, outcome) == [kind |-> kind, outcome |-> outcome]

Tasks == BagToSet(running)
At(t, kind, pc) == t.kind = kind /\ t.pc = pc

\* the comments the handlers compose: the numbered questions (118-133), the
\* request for the missing answers (235-237), the feedback (270-295)
QuestionComment(questions) == [kind |-> "questions", questions |-> questions]
ReplyComment == [kind |-> "reply", questions |-> <<>>]
FeedbackComment(passed) ==
    [kind |-> IF passed THEN "passed" ELSE "failed", questions |-> <<>>]

\* set_commit_status (src/app/github/api_client.py:36-61)
set_commit_status(sha, state) == statuses' = [statuses EXCEPT ![sha] = state]

NoCall == [op |-> "none", arg |-> Raised, out |-> None, row |-> None]

InitWorkflow ==
    /\ pr_reviews = None
    /\ comments = <<>>
    /\ statuses = [sha \in SHAs |-> "none"]
    /\ running = EmptyBag
    /\ exited = Exit("none", "")
    /\ delivered = 0

Init == InitWorkflow /\ call = NoCall

\* the webhook adds a background task with locals t
Starts(t) ==
    /\ BagCardinality(running) < Cardinality(Workers)
    /\ running' = running (+) SetToBag({t})
    /\ UNCHANGED <<exited, call>>

\* the coroutine t goes on with locals u
Goes(t, u) ==
    /\ running' = (running (-) SetToBag({t})) (+) SetToBag({u})
    /\ UNCHANGED <<exited, call>>

\* the coroutine t returns
Ends(t, outcome) ==
    /\ running' = running (-) SetToBag({t})
    /\ exited' = Exit(t.kind, outcome)
    /\ UNCHANGED call

\* seeded fault: the exception is logged but the coroutine does not return
Fails_without_return(t) ==
    /\ exited' = Exit(t.kind, "error")
    /\ UNCHANGED <<pr_reviews, comments, statuses, delivered, running, call>>

\* an outbound call (token exchange, GitHub, storage) raised: the handler's
\* except clause logs it and the handler ends (main.py:170-171, 313-314)
Fails(t) ==
    /\ Ends(t, "error")
    /\ UNCHANGED <<pr_reviews, comments, statuses, delivered>>

(***************************************************************************)
(* handle_pr_event (main.py:74-171)                                        *)
(***************************************************************************)
\* webhook dispatch (56-59) and lines 76-89; a payload that lacks a field
\* the handler subscripts raises KeyError inside the try
DeliverPr(complete, draft, sha) ==
    /\ delivered < MaxEvents
    /\ delivered' = delivered + 1
    /\ IF ~complete
       THEN running' = running /\ exited' = Exit("pr", "error") /\ call' = call
       ELSE IF draft
       THEN running' = running /\ exited' = Exit("pr", "draft") /\ call' = call
       ELSE Starts([Locals EXCEPT !.kind = "pr", !.sha = sha, !.pc = "fetch"])
    /\ UNCHANGED <<pr_reviews, comments, statuses>>

\* seeded fault: the sentinel is not recognised
is_sentinel_never(diff_content) == FALSE

\* line 97
is_sentinel(diff_content) == diff_content = NoChanges

\* seeded fault: the stored fingerprint is not compared
diff_never_unchanged(existing, diff_hash) == FALSE

\* line 110
diff_unchanged(existing, diff_hash) ==
    existing # None /\ Get(existing).diff_hash = diff_hash

\* lines 91-112: token, fetch_pr_files, parse_pr_diff; then either the
\* status of a PR with nothing to review, or the lookup of the row
PrCheckDiff(t, files) ==
    /\ At(t, "pr", "fetch")
    /\ LET d == parse_pr_diff(files)
           existing == pr_reviews
       IN  \/ /\ is_sentinel(d.diff_content)
              /\ set_commit_status(t.sha, "success")
              /\ Ends(t, "no_changes")
              /\ UNCHANGED <<pr_reviews, comments, delivered>>
           \/ /\ ~is_sentinel(d.diff_content)
              /\ IF diff_unchanged(existing, d.diff_hash)
                 THEN Ends(t, "unchanged")
                 ELSE Goes(t, [t EXCEPT !.diff_hash = Some(d.diff_hash),
                                        !.is_large = d.is_large,
                                        !.existing = existing,
                                        !.pc = "generate"])
              /\ UNCHANGED <<pr_reviews, comments, statuses, delivered>>
           \/ Fails(t)

\* lines 115-136: generate_questions, then post_pr_comment
PrPost(t, resp) ==
    /\ At(t, "pr", "generate")
    /\ LET questions == generate_questions(resp)
       IN  \/ /\ comments' = Append(comments, QuestionComment(questions))
              /\ Goes(t, [t EXCEPT !.questions = questions,
                                   !.comment_id = Len(comments) + 1,
                                   !.pc = "store"])
              /\ UNCHANGED <<pr_reviews, statuses, delivered>>
           \/ Fails(t)

\* lines 139-148: the assignments to the object loaded at line 106
reset_review(existing, t) ==
    [existing EXCEPT !.pr_sha = t.sha, !.questions = t.questions,
                     !.diff_hash = Get(t.diff_hash),
                     !.status = "pending_review", !.reviewer_answers = None,
                     !.grading_result = None, !.reviewer_username = None,
                     !.bot_comment_id = t.comment_id, !.reviewed_at = None]

\* lines 151-159
new_review(t) ==
    PRReview(TrackedPR, t.sha, t.questions, Get(t.diff_hash), t.comment_id)

\* lines 138-161.  The object loaded at line 106 is added to a new session,
\* whose commit flushes its changed columns.  With no object loaded, the
\* INSERT violates the unique index on pr_id if a row exists by now.
PrStore(t) ==
    /\ At(t, "pr", "store")
    /\ LET stored == [Locals EXCEPT !.kind = "pr", !.sha = t.sha,
                                    !.pc = "pending"]
       IN  \/ /\ t.existing # None
              /\ pr_reviews' =
                     Some(flush_update(Get(pr_reviews), Get(t.existing),
                                       reset_review(Get(t.existing), t)))
              /\ Goes(t, stored)
              /\ UNCHANGED <<comments, statuses, delivered>>
           \/ /\ t.existing = None
              /\ pr_reviews = None
              /\ pr_reviews' = Some(new_review(t))
              /\ Goes(t, stored)
              /\ UNCHANGED <<comments, statuses, delivered>>
           \/ /\ t.existing = None
              /\ pr_reviews # None
              /\ Fails(t)

\* lines 163-168
PrPending(t) ==
    /\ At(t, "pr", "pending")
    /\ \/ /\ set_commit_status(t.sha, "pending")
          /\ Ends(t, "asked")
          /\ UNCHANGED <<pr_reviews, comments, delivered>>
       \/ Fails(t)

(***************************************************************************)
(* handle_comment_event (main.py:190-314)                                  *)
(***************************************************************************)
\* webhook dispatch (61-65) and lines 192-209; a payload that lacks a field
\* the handler subscripts raises KeyError inside the try
DeliverComment(complete, user_type, login, body) ==
    /\ delivered < MaxEvents
    /\ delivered' = delivered + 1
    /\ IF ~complete
       THEN /\ running' = running /\ exited' = Exit("comment", "error")
            /\ call' = call
       ELSE IF user_type = "Bot"
       THEN /\ running' = running /\ exited' = Exit("comment", "bot")
            /\ call' = call
       ELSE Starts([Locals EXCEPT !.kind = "comment", !.login = login,
                                  !.body = body, !.pc = "lookup"])
    /\ UNCHANGED <<pr_reviews, comments, statuses>>

\* seeded fault: a row that has passed is graded again
already_passed_never(review) == FALSE

\* line 221
already_passed(review) == review.status = "passed"

\* seeded fault: one missing answer is let through
too_few_by_two(answers, expected_count) == Len(answers) < expected_count - 1

\* line 231
too_few(answers, expected_count) == Len(answers) < expected_count

\* line 242
trim(answers, expected_count) == Prefix(answers, expected_count)

\* lines 211-231 and 242; of the row loaded here the code reads on only the
\* questions
CommentLookup(t) ==
    /\ At(t, "comment", "lookup")
    /\ LET review == pr_reviews
           answers == parse_numbered_answers(t.body)
       IN  IF review = None THEN Ends(t, "untracked")
           ELSE IF already_passed(Get(review))
           THEN Ends(t, "already_passed")
           ELSE LET expected_count == Len(Get(review).questions)
                    u == [t EXCEPT !.body = <<>>,
                                   !.questions = Get(review).questions]
                IN  IF too_few(answers, expected_count)
                    THEN Goes(t, [u EXCEPT !.answers = answers,
                                           !.pc = "reply"])
                    ELSE Goes(t, [u EXCEPT
                             !.answers = trim(answers, expected_count),
                             !.pc = "grade"])
    /\ UNCHANGED <<pr_reviews, comments, statuses, delivered>>

\* lines 232-240
CommentReply(t) ==
    /\ At(t, "comment", "reply")
    /\ \/ /\ comments' = Append(comments, ReplyComment)
          /\ Ends(t, "too_few")
          /\ UNCHANGED <<pr_reviews, statuses, delivered>>
       \/ Fails(t)

\* seeded fault: the verdict is inverted
verdict_inverted(result) ==
    IF Truthy(result.overall_pass) THEN "failed" ELSE "passed"

\* line 263
verdict(result) == IF Truthy(result.overall_pass) THEN "passed" ELSE "failed"

\* lines 257-265: the assignments to the row loaded at line 254
graded_review(review, answers, result, comment_author) ==
    [review EXCEPT
        !.reviewer_answers = Some(answers),
        !.grading_result = Some(result),
        !.status = verdict(result),
        !.reviewer_username = Some(comment_author),
        !.reviewed_at = Some("now")]

\* lines 243-267: token, fetch_pr_files, parse_pr_diff, whose transcript
\* goes into the grading prompt and nowhere else; grade_answers; then one
\* session loads the row, assigns and commits.  The code reads on the row's
\* pr_sha and the result.
CommentPersist(t, resp) ==
    /\ At(t, "comment", "grade")
    /\ LET result == grade_answers(resp)
           review == Get(pr_reviews)
           graded == flush_update(review, review,
                         graded_review(review, t.answers, result, t.login))
       IN  \/ /\ pr_reviews' = Some(graded)
              /\ Goes(t, [Locals EXCEPT !.kind = "comment",
                                        !.sha = graded.pr_sha,
                                        !.result = Some(result),
                                        !.pc = "feedback"])
              /\ UNCHANGED <<comments, statuses, delivered>>
           \/ Fails(t)

\* lines 269-297: the loop over result.answers raises unless each is an
\* object; then the feedback comment is posted
CommentFeedback(t) ==
    /\ At(t, "comment", "feedback")
    /\ \/ /\ ~FeedbackRaises(Get(t.result).answers)
          /\ comments' = Append(comments,
                 FeedbackComment(Truthy(Get(t.result).overall_pass)))
          /\ Goes(t, [t EXCEPT !.pc = "status"])
          /\ UNCHANGED <<pr_reviews, statuses, delivered>>
       \/ Fails(t)

\* lines 299-311
CommentStatus(t) ==
    /\ At(t, "comment", "status")
    /\ \/ /\ set_commit_status(t.sha,
                               IF Truthy(Get(t.result).overall_pass)
                               THEN "success" ELSE "failure")
          /\ Ends(t, "graded")
          /\ UNCHANGED <<pr_reviews, comments, delivered>>
       \/ Fails(t)

Next ==
    \/ \E complete \in BOOLEAN, draft \in BOOLEAN, sha \in SHAs :
           DeliverPr(complete, draft, sha)
    \/ \E t \in Tasks, files \in RemoteFiles : PrCheckDiff(t, files)
    \/ \E t \in Tasks, resp \in QuestionCompletions : PrPost(t, resp)
    \/ \E t \in Tasks : PrStore(t)
    \/ \E t \in Tasks : PrPending(t)
    \/ \E complete \in BOOLEAN, user_type \in {"User", "Bot"},
          login \in Logins, body \in Bodies :
           DeliverComment(complete, user_type, login, body)
    \/ \E t \in Tasks : CommentLookup(t)
    \/ \E t \in Tasks : CommentReply(t)
    \/ \E t \in Tasks, resp \in GradeCompletions : CommentPersist(t, resp)
    \/ \E t \in Tasks : CommentFeedback(t)
    \/ \E t \in Tasks : CommentStatus(t)

Spec == Init /\ [][Next]_vars

(***************************************************************************)
(* SpecCalls: generate_questions and grade_answers on every kind of        *)
(* completion, what the comment handler persists for a grading result,     *)
(* parse_pr_diff on file lists and parse_numbered_answers on comment       *)
(* bodies.                                                                 *)
(***************************************************************************)
\* lines in one comment body
MaxLines == 3

\* the lines a body may hold
Lines ==
    { NumLine(1, "a1", "1. a1"), NumLine(2, "a2", "2. a2"),
      NumLine(1, "b1", "1. b1"), BareLine(3, FALSE, "3."),
      BareLine(1, TRUE, "1."), TextLine("hello"), BlankLine }

CommentBodies == UNION {[1..n -> Lines] : n \in 0..MaxLines}

\* files in one payload of fetch_pr_files
MaxFiles == 3

\* the files a payload may hold: patches of 10, 600, 2000, 3000 and 6000
\* lines, a lockfile, an image, a file without patch
Files ==
    { F("main", ".py", Patch("a1", 10)), F("long", ".py", Patch("d1", 600)),
      F("core", ".py", Patch("e1", 2000)), F("util", ".py", Patch("u1", 3000)),
      F("gen", ".py", Patch("g1", 6000)), F("yarn", ".lock", Patch("l1", 40)),
      F("logo", ".svg", Patch("s1", 5)), F("blob", ".py", None) }

FileLists == UNION {[1..n -> Files] : n \in 0..MaxFiles}

\* the texts a completion may hold: each document bare, padded, fenced in
\* several ways, and followed by other text; no text; text that is not JSON
Wraps(d) ==
    { <<d>>, <<"SP", d, "NL">>,
      <<Fence, "json", "NL", d, "NL", Fence>>,
      <<Fence, "NL", d, "NL", Fence, "NL">>,
      <<Fence, "NL", d>>,
      <<Fence, d, Fence>>,
      <<d, "junk">> }

Texts == {<<>>, <<"SP">>, <<"junk">>} \cup UNION {Wraps(d) : d \in Docs}

Completions == {Raised, NoContent} \cup {Text(text) : text \in Texts}

Called(op, arg) == [op |-> op, arg |-> arg, out |-> None, row |-> None]

InitCalls ==
    /\ InitWorkflow
    /\ \/ call \in {Called(op, arg) :
                       op \in {"generate_questions", "grade_answers"},
                       arg \in Completions}
       \/ call \in {Called("parse_pr_diff", files) : files \in FileLists}
       \/ call \in {Called("parse_numbered_answers", body) :
                       body \in CommentBodies}

GenerateQuestions ==
    /\ call.op = "generate_questions"
    /\ call.out = None
    /\ call' = [call EXCEPT !.out = Some(generate_questions(call.arg))]
    /\ UNCHANGED workflow

GradeAnswers ==
    /\ call.op = "grade_answers"
    /\ call.out = None
    /\ call' = [call EXCEPT !.out = Some(grade_answers(call.arg))]
    /\ UNCHANGED workflow

\* main.py:252-267 for a pending row and three answers
PersistGrading ==
    /\ call.op = "grade_answers"
    /\ call.out # None
    /\ call.row = None
    /\ LET review == PRReview(TrackedPR, "sha1", <<"qa", "qb", "qc">>,
                              parse_pr_diff(SmallA).diff_hash, 1)
       IN  call' = [call EXCEPT !.row =
                       Some(graded_review(review, <<"a1", "a2", "a3">>,
                                          Get(call.out), "alice"))]
    /\ UNCHANGED workflow

ParsePrDiff ==
    /\ call.op = "parse_pr_diff"
    /\ call.out = None
    /\ call' = [call EXCEPT !.out = Some(parse_pr_diff(call.arg))]
    /\ UNCHANGED workflow

ParseNumberedAnswers ==
    /\ call.op = "parse_numbered_answers"
    /\ call.out = None
    /\ call' = [call EXCEPT !.out = Some(parse_numbered_answers(call.arg))]
    /\ UNCHANGED workflow

NextCalls ==
    \/ GenerateQuestions
    \/ GradeAnswers
    \/ PersistGrading
    \/ ParsePrDiff
    \/ ParseNumberedAnswers

SpecCalls == InitCalls /\ [][NextCalls]_vars

(***************************************************************************)
(* SpecAuth: get_installation_token (src/app/github/auth.py) with its      *)
(* cache, under a clock.  A call is suspended in the exchange, so calls    *)
(* overlap; time is in seconds.  In this specification `call` holds the    *)
(* cache, the clock, the exchanges under way and the outcome of the call   *)
(* that ended last.                                                        *)
(***************************************************************************)
\* the clock stops here
MaxClock == 6000

TOKEN_TTL == 50 * 60

Installations == {"i1", "i2"}

\* how much time passes at once
Spans == {1500, 2999, 3000}

\* the token an exchange made for installation i by a call that started at
\* `started` gives
Token(i, started) == [inst |-> i, started |-> started]

\* an entry of _token_cache
Entry(token, expires_at) == [token |-> token, expires_at |-> expires_at]

\* the call for installation i that read the clock at `now` ended: it
\* returned token (from the cache or not), or raised
Returned(i, now, token, cached) ==
    [inst |-> i, now |-> now, token |-> Some(token), cached |-> cached]
RaisedFor(i, now) ==
    [inst |-> i, now |-> now, token |-> None, cached |-> FALSE]

InitAuth ==
    /\ InitWorkflow
    /\ call = [op |-> "get_installation_token",
               cache |-> [i \in Installations |-> None],
               clock |-> 0,
               pending |-> {},
               last |-> None]

Tick(span) ==
    /\ call.clock + span <= MaxClock
    /\ call' = [call EXCEPT !.clock = call.clock + span]
    /\ UNCHANGED workflow

\* seeded fault: an entry is used up to and including its expiry
fresh_inclusive(entry, now) == now <= entry.expires_at

\* line 33
fresh(entry, now) == now < entry.expires_at

\* seeded fault: a failed exchange evicts the entry
cache_after_failure_evicted(cache, installation_id) ==
    [cache EXCEPT ![installation_id] = None]

\* lines 36-46 raise before line 49 is reached
cache_after_failure(cache, installation_id) == cache

\* lines 29-36: the clock is read; a fresh entry is returned, else the JWT
\* is signed, which raises for a malformed key, and the exchange is sent
BeginCall(installation_id, key_ok) ==
    LET now == call.clock
        entry == call.cache[installation_id]
    IN  /\ Cardinality(call.pending) < Cardinality(Workers)
        /\ IF entry # None /\ fresh(Get(entry), now)
           THEN call' = [call EXCEPT !.last =
                            Some(Returned(installation_id, now,
                                          Get(entry).token, TRUE))]
           ELSE IF ~key_ok
           THEN call' = [call EXCEPT
                            !.cache = cache_after_failure(call.cache,
                                                          installation_id),
                            !.last = Some(RaisedFor(installation_id, now))]
           ELSE call' = [call EXCEPT !.pending =
                            call.pending \cup
                                {[inst |-> installation_id, now |-> now]}]
        /\ UNCHANGED workflow

\* lines 44-50: the exchange answered (ok), answered with an error status
\* (raise_for_status raises) or failed (the post raises)
EndCall(p, answer) ==
    /\ p \in call.pending
    /\ IF answer = "ok"
       THEN LET token == Token(p.inst, p.now)
            IN  call' = [call EXCEPT
                            !.pending = call.pending \ {p},
                            !.cache[p.inst] =
                                Some(Entry(token, p.now + TOKEN_TTL)),
                            !.last = Some(Returned(p.inst, p.now, token, FALSE))]
       ELSE call' = [call EXCEPT
                        !.pending = call.pending \ {p},
                        !.cache = cache_after_failure(call.cache, p.inst),
                        !.last = Some(RaisedFor(p.inst, p.now))]
    /\ UNCHANGED workflow

NextAuth ==
    \/ \E span \in Spans : Tick(span)
    \/ \E i \in Installations, key_ok \in BOOLEAN : BeginCall(i, key_ok)
    \/ \E p \in call.pending, answer \in {"ok", "status", "error"} :
           EndCall(p, answer)

SpecAuth == InitAuth /\ [][NextAuth]_vars

(***************************************************************************)
(* Properties.                                                             *)
(***************************************************************************)
\* the coroutine t took the step; the coroutine u is where it went on
Left(t) == CopiesIn(t, running') < CopiesIn(t, running)
Entered(u) == CopiesIn(u, running') > CopiesIn(u, running)
\* the coroutine t returned in the step, logging outcome
Ended(t, outcome) ==
    /\ Left(t)
    /\ BagCardinality(running') < BagCardinality(running)
    /\ exited' = Exit(t.kind, outcome)

\* C1: a handle_pr_event that finds a row whose diff_hash is the fingerprint
\* it has just computed goes no further: it never goes on to generate
\* questions with the fingerprint the row has, and when it stops at line 112
\* the row, the comments and the commit statuses are what they were,
\* whatever the row's status.
C1_IdempotentRedelivery ==
    [][\A t \in Tasks :
          At(t, "pr", "fetch") /\ Left(t) =>
            /\ \A u \in BagToSet(running') :
                  Entered(u) /\ pr_reviews # None =>
                      /\ u.pc = "generate"
                      /\ Get(u.diff_hash) # Get(pr_reviews).diff_hash
            /\ Ended(t, "unchanged") =>
                  /\ pr_reviews # None
                  /\ UNCHANGED <<pr_reviews, comments, statuses>>]_vars

\* a redelivery has been dropped for a row that had passed
C1_Witness ==
    /\ exited = Exit("pr", "unchanged")
    /\ pr_reviews # None
    /\ Get(pr_reviews).status = "passed"
    /\ delivered = MaxEvents

\* C2: when handle_pr_event, having found a row with another fingerprint,
\* commits its update (lines 138-161), the row has status pending_review, the
\* new fingerprint, the event's head SHA, the new questions, the id of the
\* new comment, and no answers, grading result, reviewer or review time.
C2_ResetOnChangedFingerprint ==
    [][\A t \in Tasks :
          At(t, "pr", "store") /\ Left(t) /\ t.existing # None
              /\ ~Ended(t, "error") =>
            LET r == Get(pr_reviews')
            IN  /\ r.status = "pending_review"
                /\ r.diff_hash = Get(t.diff_hash)
                /\ r.pr_sha = t.sha
                /\ r.questions = t.questions
                /\ r.bot_comment_id = t.comment_id
                /\ r.reviewer_answers = None
                /\ r.grading_result = None
                /\ r.reviewer_username = None
                /\ r.reviewed_at = None]_vars

\* C3: once the row's status is passed, a step either leaves the status and
\* the grading result as they are or is a reset: the status becomes
\* pending_review and the fingerprint changes.
C3_NoExitFromPassed ==
    [][(pr_reviews # None /\ Get(pr_reviews).status = "passed") =>
          LET r == Get(pr_reviews)
              r2 == Get(pr_reviews')
          IN  \/ /\ r2.status = "passed"
                 /\ r2.grading_result = r.grading_result
              \/ /\ r2.status = "pending_review"
                 /\ r2.diff_hash # r.diff_hash]_vars

\* C4: a comment handler that finds a row that has not passed and parses
\* fewer answers than the row has questions goes to the reply and nowhere
\* else; the reply is one comment, after which the handler returns with the
\* row and the commit statuses as they were.
C4_InsufficientAnswers ==
    [][\A t \in Tasks :
          t.kind = "comment" /\ Left(t) =>
            /\ ( /\ t.pc = "lookup"
                 /\ pr_reviews # None
                 /\ Get(pr_reviews).status # "passed"
                 /\ Len(parse_numbered_answers(t.body))
                        < Len(Get(pr_reviews).questions) ) =>
                  /\ \E u \in BagToSet(running') : Entered(u) /\ u.pc = "reply"
                  /\ UNCHANGED <<pr_reviews, comments, statuses>>
            /\ t.pc = "reply" =>
                  /\ running' = running (-) SetToBag({t})
                  /\ UNCHANGED <<pr_reviews, statuses>>
                  /\ \/ /\ exited' = Exit("comment", "too_few")
                        /\ comments' = Append(comments, ReplyComment)
                     \/ /\ exited' = Exit("comment", "error")
                        /\ comments' = comments]_vars

\* one answer short of three questions: the reply is posted, the row is as
\* handle_pr_event stored it
C4_Witness ==
    /\ exited = Exit("comment", "too_few")
    /\ comments # <<>>
    /\ comments[Len(comments)] = ReplyComment
    /\ pr_reviews # None
    /\ Len(Get(pr_reviews).questions) = 3
    /\ Get(pr_reviews).status = "pending_review"
    /\ Get(pr_reviews).reviewer_answers = None

\* the completions C5 is about: the call raised, no text, text that is not
\* JSON once the fence is stripped, an object without one of the three keys
GradingCannotSucceed(resp) ==
    \/ resp.err
    \/ resp.none
    \/ json_loads(strip_fence(resp.text)) = None
    \/ LET parsed == Get(json_loads(strip_fence(resp.text)))
       IN  parsed.t = "object" /\ parsed.keys # GKeys

\* C5: for such a completion grade_answers returns overall_pass false, no
\* answers and the fixed summary, and the row the handler then persists has
\* status failed.
C5_GradingFailureIsHardFail ==
    (call.op = "grade_answers" /\ call.out # None
         /\ GradingCannotSucceed(call.arg)) =>
        /\ Get(call.out).overall_pass = "false"
        /\ Get(call.out).answers = "empty"
        /\ Get(call.out).summary = "Grading failed due to a system error"
        /\ call.row # None => Get(call.row).status = "failed"

\* an object without "summary", fenced, has been graded and persisted
C5_Witness ==
    /\ call.op = "grade_answers"
    /\ call.arg = Text(<<Fence, "json", "NL", "GNoSum", "NL", Fence>>)
    /\ call.row # None
    /\ Get(call.row).status = "failed"

\* C6: generate_questions returns between 3 and 5 questions.
C6_QuestionCountBound ==
    (call.op = "generate_questions" /\ call.out # None) =>
        /\ Len(Get(call.out)) >= 3
        /\ Len(Get(call.out)) <= 5

\* the completions C7 is about: the call raised, the text is not JSON, the
\* object has no "questions", the list under it is empty
QuestionsCannotBeUsed(resp) ==
    \/ resp.err
    \/ resp.none
    \/ json_loads(resp.text) = None
    \/ LET parsed == Get(json_loads(resp.text))
       IN  \/ parsed.t = "object" /\ "questions" \notin parsed.keys
           \/ parsed.t = "object" /\ parsed.qt = "list" /\ parsed.qv = <<>>

\* C7: for such a completion generate_questions returns the three fallback
\* questions.
C7_QuestionFallback ==
    (call.op = "generate_questions" /\ call.out # None
         /\ QuestionsCannotBeUsed(call.arg)) =>
        Get(call.out) = <<"purpose", "edge_cases", "interaction">>

\* an empty list of questions has been replaced by the fallback
C7_Witness ==
    /\ call.op = "generate_questions"
    /\ call.arg = Text(<<"Q0">>)
    /\ call.out = Some(<<"purpose", "edge_cases", "interaction">>)

\* C8: a row that has answers has as many answers as questions.
C8_AnswerCount ==
    (pr_reviews # None /\ Get(pr_reviews).reviewer_answers # None) =>
        Len(Get(Get(pr_reviews).reviewer_answers))
            = Len(Get(pr_reviews).questions)

\* C9: after one delivery that ends with the questions asked, the row is
\* pending with the questions of the one comment posted and its head SHA has
\* the commit status pending; after a second delivery, a comment graded as a
\* pass on three questions, the row has status passed, the three answers and
\* the reviewer, the feedback is the second comment and the row's head SHA
\* has the commit status success.
C9_EndToEndPass ==
    /\ (delivered = 1 /\ exited = Exit("pr", "asked")) =>
          /\ pr_reviews # None
          /\ LET r == Get(pr_reviews)
             IN  /\ r.status = "pending_review"
                 /\ r.reviewer_answers = None
                 /\ comments = <<QuestionComment(r.questions)>>
                 /\ r.bot_comment_id = 1
                 /\ statuses[r.pr_sha] = "pending"
    /\ ( /\ delivered = 2
         /\ running = EmptyBag
         /\ exited = Exit("comment", "graded")
         /\ pr_reviews # None
         /\ Len(Get(pr_reviews).questions) = 3
         /\ Get(pr_reviews).grading_result # None
         /\ Get(Get(pr_reviews).grading_result).overall_pass = "true" ) =>
          LET r == Get(pr_reviews)
          IN  /\ r.status = "passed"
              /\ r.reviewer_answers = Some(<<"a1", "a2", "a3">>)
              /\ r.reviewer_username = Some("alice")
              /\ comments = <<QuestionComment(r.questions),
                              FeedbackComment(TRUE)>>
              /\ statuses[r.pr_sha] = "success"

\* the PR was opened and the reviewer's three answers passed
C9_Witness ==
    /\ delivered = 2
    /\ running = EmptyBag
    /\ exited = Exit("comment", "graded")
    /\ pr_reviews # None
    /\ Len(Get(pr_reviews).questions) = 3
    /\ Get(pr_reviews).status = "passed"
    /\ statuses[Get(pr_reviews).pr_sha] = "success"

\* C10: a handle_pr_event never goes on to generate questions for the
\* sentinel transcript; when it stops at line 102 the head SHA of the event
\* has the commit status success, no other status has changed, and the row
\* (none, if there was none) and the comments are what they were.
C10_SentinelPath ==
    [][\A t \in Tasks :
          At(t, "pr", "fetch") /\ Left(t) =>
            /\ \A u \in BagToSet(running') :
                  Entered(u) => Get(u.diff_hash) # sha256(NoChanges)
            /\ Ended(t, "no_changes") =>
                  /\ statuses' = [statuses EXCEPT ![t.sha] = "success"]
                  /\ UNCHANGED <<pr_reviews, comments>>]_vars

\* the sentinel path was taken for a PR that has a row, which is still
\* pending
C10_Witness ==
    /\ exited = Exit("pr", "no_changes")
    /\ pr_reviews # None
    /\ Get(pr_reviews).status = "pending_review"
    /\ \E sha \in SHAs : statuses[sha] = "success"

\* C11: a delivery that starts no handler (a draft PR, a comment by a Bot)
\* changes nothing but the log, and a comment handler that finds no row, or
\* a row that has passed, returns in that very step (so makes no call after
\* it) with the row, the comments and the commit statuses as they were.
C11_IgnoredEvents ==
    [][/\ (delivered' # delivered /\ running' = running) =>
             /\ exited' \in {Exit("pr", "draft"), Exit("comment", "bot"),
                            Exit("pr", "error"), Exit("comment", "error")}
             /\ UNCHANGED <<pr_reviews, comments, statuses>>
       /\ \A t \in Tasks :
             ( /\ At(t, "comment", "lookup")
               /\ Left(t)
               /\ pr_reviews = None \/ Get(pr_reviews).status = "passed" ) =>
                 /\ running' = running (-) SetToBag({t})
                 /\ exited' = Exit("comment", IF pr_reviews = None
                                              THEN "untracked"
                                              ELSE "already_passed")
                 /\ UNCHANGED <<pr_reviews, comments, statuses>>]_vars

\* a comment on a row that has passed has been ignored
C11_Witness ==
    /\ exited = Exit("comment", "already_passed")
    /\ pr_reviews # None
    /\ Get(pr_reviews).status = "passed"
    /\ running = EmptyBag

StatusOf(review) == IF review = None THEN "absent" ELSE Get(review).status

\* C13: the status of the row is pending_review, passed or failed, and a step
\* that changes it takes it from absent to pending_review, from
\* pending_review to passed or to failed, or, in a step of a PR handler, from
\* failed or passed to pending_review.
C13_StatusStateMachine ==
    /\ [](StatusOf(pr_reviews)
              \in {"absent", "pending_review", "passed", "failed"})
    /\ [][StatusOf(pr_reviews') # StatusOf(pr_reviews) =>
              LET from == StatusOf(pr_reviews)
                  to == StatusOf(pr_reviews')
                  by_pr == \E t \in Tasks : Left(t) /\ t.kind = "pr"
              IN  \/ from = "absent" /\ to = "pending_review"
                  \/ from = "pending_review" /\ to \in {"passed", "failed"}
                  \/ from \in {"failed", "passed"} /\ to = "pending_review"
                         /\ by_pr]_vars

\* the files of a list that are not skipped and have a patch, in input order
Surviving(files) ==
    SelectSeq(files, LAMBDA f : ~_should_skip(f.filename) /\ f.patch # None)

\* the patch lines of the first k files of a list
RECURSIVE LinesUpTo(_, _)
LinesUpTo(files, k) ==
    IF k = 0 THEN 0 ELSE LinesUpTo(files, k - 1) + Get(files[k].patch).lines

\* the positions at which the running total is above 5000
Crossings(files) == {k \in 1..Len(files) : LinesUpTo(files, k) > 5000}

\* the least element of a non-empty set of numbers
Least(S) == CHOOSE k \in S : \A j \in S : k <= j

\* C14: is_large is true exactly when the running total of the surviving
\* files crosses 5000 at some file, and the transcript holds, in input order,
\* the surviving files before the first crossing (all of them if there is
\* none) and no other.
C14_SizeGate ==
    (call.op = "parse_pr_diff" /\ call.out # None) =>
        LET surviving == Surviving(call.arg)
            crossings == Crossings(surviving)
            kept == IF crossings = {} THEN Len(surviving)
                    ELSE Least(crossings) - 1
            r == Get(call.out)
        IN  /\ r.is_large = (crossings # {})
            /\ Len(r.diff_content.parts) = kept
            /\ \A i \in 1..kept :
                  /\ r.diff_content.parts[i].filename = surviving[i].filename
                  /\ r.diff_content.parts[i].patch = Get(surviving[i].patch).id

\* two files are within the ceiling, the third crosses it and is left out
C14_Witness ==
    /\ call.op = "parse_pr_diff"
    /\ call.out # None
    /\ Get(call.out).is_large
    /\ Len(Get(call.out).diff_content.parts) = 2
    /\ Len(call.arg) = 3

\* the file has a base name on the denylist, a path that ends in a denylisted
\* extension, or no patch
NothingToShow(f) ==
    \/ <<f.filename.stem, f.filename.ext>> \in SKIP_PATTERNS
    \/ f.filename.ext \in SKIP_EXTENSIONS
    \/ f.patch = None

\* C15: for a list of such files only, parse_pr_diff returns the sentinel
\* transcript, its digest, and is_large false.
C15_AllSkipped ==
    (call.op = "parse_pr_diff" /\ call.out # None
         /\ \A i \in 1..Len(call.arg) : NothingToShow(call.arg[i])) =>
        /\ Get(call.out).diff_content = [sentinel |-> TRUE, parts |-> <<>>]
        /\ Get(call.out).diff_hash
               = sha256([sentinel |-> TRUE, parts |-> <<>>])
        /\ Get(call.out).is_large = FALSE

\* a lockfile, an image and a file without patch give the sentinel
C15_Witness ==
    /\ call.op = "parse_pr_diff"
    /\ call.out # None
    /\ Len(call.arg) = 3
    /\ \E i, j, k \in 1..3 :
          /\ call.arg[i].filename.ext = ".lock"
          /\ call.arg[j].filename.ext = ".svg"
          /\ call.arg[k].patch = None
    /\ Get(call.out).diff_content = NoChanges

\* the reorderings of a list
Reorderings(files) ==
    LET n == Len(files)
        bijections == {f \in [1..n -> 1..n] : \A i, j \in 1..n :
                                                  f[i] = f[j] => i = j}
    IN  {[i \in 1..n |-> files[f[i]]] : f \in bijections}

NumberedLines(body) ==
    SelectSeq(body, LAMBDA line : line.k = "num" \/ (line.k = "bare" /\ line.sp))

\* the matching lines with a number below n, then those with the number n,
\* and so on up to the largest number: ascending, equal numbers in scan order
RECURSIVE AscendingFrom(_, _, _)
AscendingFrom(lines, n, largest) ==
    IF n > largest THEN <<>>
    ELSE SelectSeq(lines, LAMBDA line : line.n = n)
             \o AscendingFrom(lines, n + 1, largest)

\* C17: the result holds the trimmed text of each matching numbered line, and
\* nothing else, in ascending order of the numbers, lines of equal number in
\* scan order.
C17_AnswerOrdering ==
    (call.op = "parse_numbered_answers" /\ call.out # None) =>
        LET expected == AscendingFrom(NumberedLines(call.arg), 1, 3)
        IN  /\ Len(Get(call.out)) = Len(expected)
            /\ \A i \in 1..Len(expected) : Get(call.out)[i] = expected[i].t


\* installation i has an entry whose caching call started less than
\* TOKEN_TTL before the present time
InWindow(i) ==
    /\ call.cache[i] # None
    /\ call.clock < Get(call.cache[i]).token.started + TOKEN_TTL

\* C18: a call returns a token from the cache only if it started strictly
\* less than TOKEN_TTL after the start of the call that cached the token,
\* and only a token made for its own installation; an entry belongs to its
\* installation and expires TOKEN_TTL after the start of the call that
\* stored it; a call that starts inside the window returns the entry's token
\* and sends no exchange, and an exchange is sent only outside the window; a
\* successful exchange replaces the entry.
C18_CacheFreshness ==
    /\ [](/\ call.last # None /\ Get(call.last).token # None =>
              LET r == Get(call.last)
                  token == Get(r.token)
              IN  /\ token.inst = r.inst
                  /\ r.cached => r.now < token.started + TOKEN_TTL
          /\ \A i \in Installations : call.cache[i] # None =>
              LET entry == Get(call.cache[i])
              IN  /\ entry.token.inst = i
                  /\ entry.expires_at = entry.token.started + TOKEN_TTL)
    /\ [][\A i \in Installations :
            /\ (\E p \in call'.pending \ call.pending : p.inst = i)
                   => ~InWindow(i)
            /\ InWindow(i) /\ (\E key_ok \in BOOLEAN : BeginCall(i, key_ok))
                   => /\ call'.last =
                            Some(Returned(i, call.clock,
                                          Get(call.cache[i]).token, TRUE))
                      /\ call'.pending = call.pending
                      /\ call'.cache = call.cache
            /\ \A p \in call.pending :
                   p.inst = i /\ EndCall(p, "ok")
                   => /\ call'.cache[i] # None
                      /\ Get(call'.cache[i]).token.started = p.now
                      /\ call'.last =
                            Some(Returned(i, p.now,
                                          Get(call'.cache[i]).token, FALSE))
         ]_vars

\* a call returned the cached token in the last second of the window, while
\* the other installation had an entry of its own
C18_Witness ==
    /\ call.last # None
    /\ Get(call.last).cached
    /\ Get(call.last).now =
           Get(Get(call.last).token).started + TOKEN_TTL - 1
    /\ \A i \in Installations : call.cache[i] # None

\* C19: a call that finds no fresh entry and cannot sign with its key, and a
\* call whose exchange fails or is answered with an error status, raise
\* instead of returning a token and leave the whole cache as it was.
C19_CredentialFailure ==
    [][/\ \A i \in Installations :
              ~InWindow(i) /\ BeginCall(i, FALSE)
              => /\ call'.cache = call.cache
                 /\ call'.last = Some(RaisedFor(i, call.clock))
       /\ \A p \in call.pending, answer \in {"status", "error"} :
              EndCall(p, answer)
              => /\ call'.cache = call.cache
                 /\ call'.last = Some(RaisedFor(p.inst, p.now))
      ]_vars

\* a call raised and the stale entry of its installation is still there
C19_Witness ==
    /\ call.last # None
    /\ Get(call.last).token = None
    /\ call.cache[Get(call.last).inst] # None
    /\ Get(call.last).now >= Get(call.cache[Get(call.last).inst]).expires_at



\* a document that meets the contract of its operation, inside a fence that
\* opens on a line of its own (with or without a language tag) and closes on
\* the last line
Fenced(d) ==
    { <<Fence, "json", "NL", d, "NL", Fence>>,
      <<Fence, "NL", d, "NL", Fence, "NL">> }

\* C20: for a completion that is a contract-valid JSON object inside a
\* fence, generate_questions returns the questions of the object and
\* grade_answers returns its grading result: what each returns for the
\* object without the fence.
C20_FenceStripping ==
    call.out # None =>
        /\ \A d \in {"Q3", "Q4", "Q5"} :
               (call.op = "generate_questions"
                    /\ call.arg \in {Text(text) : text \in Fenced(d)}) =>
                   /\ Get(call.out) = Doc(d).qv
                   /\ Get(call.out) = generate_questions(Text(<<d>>))
        /\ \A d \in {"GPass", "GFail"} :
               (call.op = "grade_answers"
                    /\ call.arg \in {Text(text) : text \in Fenced(d)}) =>
                   /\ Get(call.out) =
                          GradingResult(Doc(d).op, Doc(d).ans, "model summary")
                   /\ Get(call.out) = grade_answers(Text(<<d>>))



\* the completion parses, fence stripped, to an object with the three keys
\* whose overall_pass is a boolean and whose answers is a list of objects
WellShaped(resp) ==
    /\ ~resp.err
    /\ ~resp.none
    /\ json_loads(strip_fence(resp.text)) # None
    /\ LET parsed == Get(json_loads(strip_fence(resp.text)))
       IN  /\ parsed.t = "object"
           /\ GKeys \subseteq parsed.keys
           /\ parsed.op \in {"true", "false"}
           /\ parsed.ans = "objects"

\* C21: the row persisted after grading has status passed only for a
\* well-shaped completion whose overall_pass is true; for a completion that
\* is not well-shaped grade_answers returns the fixed failure result and the
\* row has status failed.
C21_NoPassFromShapeInvalid ==
    (call.op = "grade_answers" /\ call.row # None) =>
        /\ Get(call.row).status = "passed" =>
               /\ WellShaped(call.arg)
               /\ Get(json_loads(strip_fence(call.arg.text))).op = "true"
        /\ ~WellShaped(call.arg) =>
               /\ Get(call.out) = GradingFailed
               /\ Get(call.row).status = "failed"



\* C22: parse_pr_diff returns the sentinel transcript only for a list in
\* which no file is both kept by the skip rules and has a patch, and a
\* result with is_large true does not have the sentinel as its transcript.
C22_SentinelMeansNothingToReview ==
    (call.op = "parse_pr_diff" /\ call.out # None) =>
        /\ Get(call.out).diff_content = [sentinel |-> TRUE, parts |-> <<>>]
               => \A i \in 1..Len(call.arg) : NothingToShow(call.arg[i])
        /\ Get(call.out).is_large
               => Get(call.out).diff_content
                      # [sentinel |-> TRUE, parts |-> <<>>]



\* C23: when a handle_pr_event for a non-draft PR returns without a failure,
\* the head SHA of its event has a commit status, and if it was the only
\* handler at work the row, if there is one, has that SHA as pr_sha.
C23_EveryHeadGetsStatus ==
    [][\A t \in Tasks, outcome \in {"no_changes", "unchanged", "asked"} :
          (t.kind = "pr" /\ Ended(t, outcome)) =>
              /\ statuses'[t.sha] # "none"
              /\ (running' = EmptyBag /\ pr_reviews' # None)
                     => Get(pr_reviews').pr_sha = t.sha]_vars



\* C24: when a handle_comment_event that has persisted its verdict ends,
\* however it ends, the commit of the pr_sha it read from the row has the
\* status of that verdict: success for passed, failure for failed.
C24_PersistedVerdictIsPublished ==
    [][\A t \in Tasks, outcome \in {"graded", "error"} :
          (t.kind = "comment" /\ t.pc \in {"feedback", "status"}
               /\ Ended(t, outcome)) =>
              statuses'[t.sha] = IF verdict(Get(t.result)) = "passed"
                                 THEN "success" ELSE "failure"]_vars



\* C25: the row a comment handler persists its verdict in has the questions
\* the handler looked up and graded against, and a step that changes the
\* row's questions leaves it pending_review, without a verdict.
C25_VerdictOfCurrentQuestions ==
    [][/\ \A t \in Tasks :
              (At(t, "comment", "grade") /\ Left(t) /\ ~Ended(t, "error")) =>
                  Get(pr_reviews').questions = t.questions
       /\ (pr_reviews # None
               /\ Get(pr_reviews').questions # Get(pr_reviews).questions) =>
              /\ Get(pr_reviews').status = "pending_review"
              /\ Get(pr_reviews').grading_result = None]_vars



\* C26: of the handle_pr_event runs that have posted their question comment
\* and not yet stored, no two have the same fingerprint and none has the
\* fingerprint the row has by now (a second comment for one fingerprint);
\* and the row's bot_comment_id is the id of a posted question comment that
\* lists the row's questions.
C26_ConcurrentDuplicates ==
    /\ \A t \in Tasks : At(t, "pr", "store") =>
          /\ \A u \in Tasks \ {t} :
                At(u, "pr", "store") => u.diff_hash # t.diff_hash
          /\ pr_reviews # None =>
                Get(pr_reviews).diff_hash # Get(t.diff_hash)
    /\ pr_reviews # None =>
          LET r == Get(pr_reviews)
          IN  /\ r.bot_comment_id \in 1..Len(comments)
              /\ comments[r.bot_comment_id] = QuestionComment(r.questions)



\* the well-formedness C27 states of a row
WellFormed(r) ==
    LET graded(op) == r.grading_result # None
                          /\ Get(r.grading_result).overall_pass = op
    IN  /\ r.status = "pending_review" <=>
               /\ r.reviewer_answers = None
               /\ r.grading_result = None
               /\ r.reviewer_username = None
               /\ r.reviewed_at = None
        /\ r.status = "passed" <=> graded("true")
        /\ r.status = "failed" <=> graded("false")
        /\ r.status \in {"passed", "failed"} =>
               /\ r.reviewer_answers # None
               /\ r.reviewer_username # None
               /\ r.reviewed_at # None

\* C27: the row persisted after a grading is well-formed: it is
\* pending_review exactly when it has no answers, grading result, reviewer
\* and review time, passed exactly when its grading result has overall_pass
\* true, failed exactly when it has overall_pass false, and in both graded
\* states it has answers, reviewer and review time.
C27_RecordWellFormed ==
    (call.op = "grade_answers" /\ call.row # None) =>
        WellFormed(Get(call.row))


=============================================================================
